---------------------------- MODULE Spec2Model ----------------------------
(***************************************************************************)
(* Model of the transcript scraper: the fragment fetcher and assembler of  *)
(* dcf_transcripts.py and the batch retry controller of                    *)
(* sandp_transcripts.py (fetch_all_transcripts_for_year).                  *)
(*                                                                         *)
(* Text is a sequence of characters (one-character strings); a markup tag  *)
(* of an HTML body is one token of the sequence.                           *)
(***************************************************************************)
EXTENDS Integers, Sequences, FiniteSets, TLC

(***************************************************************************)
(* Bounds of the model.                                                    *)
(***************************************************************************)
\* cfg.max_parts of the single-unit call that exercises the assembler
MaxPartsDeep == 4
\* max_rate_limit_retries of the batch call
MaxRetries == 2
\* number of consecutive calls of fetch_all_transcripts_for_year on one output_dir
NumRuns == 2
\* random.random() is drawn from k / RandomSteps, 0 <= k < RandomSteps
RandomSteps == 16
\* _backoff_delay_s is applied to the attempts 0..MaxAttempt
MaxAttempt == 8
\* the segmenter is applied to the texts of at most MaxLines lines
MaxLines == 4

(***************************************************************************)
(* Characters and strings.                                                 *)
(***************************************************************************)
NL == "\n"
CR == "\r"
TAB == "\t"
SP == " "

Whitespace == {SP, TAB, NL, CR}

UpperLetters == <<"A","B","C","D","E","F","G","H","I","J","K","L","M","N","O","P","Q","R","S","T","U","V","W","X","Y","Z">>
LowerLetters == <<"a","b","c","d","e","f","g","h","i","j","k","l","m","n","o","p","q","r","s","t","u","v","w","x","y","z">>
Digits == <<"0","1","2","3","4","5","6","7","8","9">>

Range(s) == {s[k] : k \in 1..Len(s)}

\* str.lower() on one character
LowerChar(c) ==
    IF \E k \in 1..26 : UpperLetters[k] = c
    THEN LowerLetters[CHOOSE k \in 1..26 : UpperLetters[k] = c]
    ELSE c

\* str.lower()
Lower(s) == [k \in 1..Len(s) |-> LowerChar(s[k])]

\* the Python test `p in s` on strings
Contains(s, p) ==
    \E k \in 0..(Len(s) - Len(p)) : SubSeq(s, k + 1, k + Len(p)) = p

\* str.strip()
Strip(s) ==
    LET keep == {k \in 1..Len(s) : s[k] \notin Whitespace}
    IN  IF keep = {} THEN <<>>
        ELSE LET lo == CHOOSE k \in keep : \A j \in keep : k <= j
                 hi == CHOOSE k \in keep : \A j \in keep : k >= j
             IN  SubSeq(s, lo, hi)

\* the pieces of s between the elements of seps (empty pieces included)
RECURSIVE SplitOn(_, _)
SplitOn(s, seps) ==
    LET at == {k \in 1..Len(s) : s[k] \in seps}
    IN  IF at = {} THEN <<s>>
        ELSE LET k == CHOOSE x \in at : \A y \in at : x <= y
             IN  <<SubSeq(s, 1, k - 1)>> \o SplitOn(SubSeq(s, k + 1, Len(s)), seps)

\* sep.join(parts)
RECURSIVE Join(_, _)
Join(parts, sep) ==
    IF parts = <<>> THEN <<>>
    ELSE IF Len(parts) = 1 THEN parts[1]
    ELSE parts[1] \o sep \o Join(Tail(parts), sep)

\* the non-empty elements of a sequence of strings, in order
RECURSIVE NonEmpty(_)
NonEmpty(parts) ==
    IF parts = <<>> THEN <<>>
    ELSE IF parts[1] = <<>> THEN NonEmpty(Tail(parts))
    ELSE <<parts[1]>> \o NonEmpty(Tail(parts))

StripAll(parts) == [k \in 1..Len(parts) |-> Strip(parts[k])]

\* the decimal digits of a natural number
RECURSIVE IntStr(_)
IntStr(n) ==
    IF n < 10 THEN <<Digits[n + 1]>>
    ELSE IntStr(n \div 10) \o <<Digits[(n % 10) + 1]>>

(***************************************************************************)
(* Transcript normalizer (dcf_transcripts.py).                             *)
(***************************************************************************)
Tags == {"<p>", "</p>", "<h1>", "</h1>", "<div>", "</div>"}

\* BeautifulSoup(html).get_text("\n", strip=True): the text nodes between
\* tags, each stripped, the empty ones dropped, joined by a line break
_html_to_text(html) == Join(NonEmpty(StripAll(SplitOn(html, Tags))), <<NL>>)

\* re.sub(r"\r\n|\r", "\n", s)
RECURSIVE UnifyNewlines(_)
UnifyNewlines(s) ==
    IF s = <<>> THEN <<>>
    ELSE IF s[1] = CR
         THEN IF Len(s) >= 2 /\ s[2] = NL
              THEN <<NL>> \o UnifyNewlines(SubSeq(s, 3, Len(s)))
              ELSE <<NL>> \o UnifyNewlines(Tail(s))
         ELSE <<s[1]>> \o UnifyNewlines(Tail(s))

\* re.sub(r"\n{3,}", "\n\n", s); run = line breaks directly before s
RECURSIVE CollapseNewlines(_, _)
CollapseNewlines(s, run) ==
    IF s = <<>> THEN <<>>
    ELSE IF s[1] = NL
         THEN IF run >= 2 THEN CollapseNewlines(Tail(s), run + 1)
              ELSE <<NL>> \o CollapseNewlines(Tail(s), run + 1)
         ELSE <<s[1]>> \o CollapseNewlines(Tail(s), 0)

_normalize_whitespace(s) == Strip(CollapseNewlines(UnifyNewlines(s), 0))

transcript_text_from_html(html) == _normalize_whitespace(_html_to_text(html))

_LIMIT_REACHED_PATTERNS ==
    << <<"R","e","q","u","e","s","t"," ","L","i","m","i","t"," ","R","e","a","c","h","e","d">>,
       <<"F","o","r","b","i","d","d","e","n"," ","-"," ","R","e","q","u","e","s","t"," ","L","i","m","i","t"," ","R","e","a","c","h","e","d">>,
       <<"Y","o","u"," ","s","e","e","m"," ","t","o"," ","h","a","v","e"," ","r","e","a","c","h","e","d"," ","y","o","u","r"," ","r","e","q","u","e","s","t"," ","l","i","m","i","t">> >>

\* mutant: the phrases are looked up as they are spelled
is_rate_limited_message_CaseSensitive(text) ==
    \E k \in 1..Len(_LIMIT_REACHED_PATTERNS) : Contains(text, _LIMIT_REACHED_PATTERNS[k])

is_rate_limited_message(text) ==
    LET t == Lower(text)
    IN  \E k \in 1..Len(_LIMIT_REACHED_PATTERNS) :
            Contains(t, Lower(_LIMIT_REACHED_PATTERNS[k]))

(***************************************************************************)
(* Speaker segmenter (dcf_transcripts.py).                                 *)
(***************************************************************************)
MaxLabelLen == 60
MaxLabelWords == 5

DenyWords ==
    { <<"f","i","s","c","a","l">>, <<"q","u","a","r","t","e","r">>, <<"f","y">>,
      <<"d","o","w","n","l","o","a","d">>, <<"i","n","s","i","g","h","t","s">>,
      <<"p","r","i","v","a","c","y">>, <<"t","e","r","m","s">>,
      <<"d","i","s","c","l","a","i","m","e","r">> }

\* \w of the regular expression
IsWordChar(c) ==
    c \in Range(UpperLetters) \cup Range(LowerLetters) \cup Range(Digits) \cup {"_"}

\* re.search(r"\b(w)\b", line, re.I) for one word w of the deny list
MatchesWord(line, w) ==
    \E k \in 0..(Len(line) - Len(w)) :
        /\ Lower(SubSeq(line, k + 1, k + Len(w))) = w
        /\ (k = 0 \/ ~IsWordChar(line[k]))
        /\ (k + Len(w) = Len(line) \/ ~IsWordChar(line[k + Len(w) + 1]))

\* str.split(): the maximal runs of non-whitespace
Words(line) == NonEmpty(SplitOn(line, Whitespace))

looks_like_speaker(line) ==
    /\ Len(line) <= MaxLabelLen
    /\ ~ \E w \in DenyWords : MatchesWord(line, w)
    /\ ~ \E k \in 1..Len(line) : line[k] \in {".", "!", "?"}
    /\ Len(Words(line)) >= 1
    /\ Len(Words(line)) <= MaxLabelWords

\* the stripped, non-empty lines of the text
TextLines(full_text) == NonEmpty(StripAll(SplitOn(full_text, {NL, CR})))

\* mutant: the lines of a block are joined by line breaks
Flush_JoinedByLineBreak(st) ==
    [st EXCEPT
        !.blocks = IF st.current_speaker # <<>> /\ st.buf # <<>>
                   THEN Append(@, [speaker |-> st.current_speaker,
                                   text |-> _normalize_whitespace(Join(st.buf, <<NL>>))])
                   ELSE @,
        !.buf = <<>>]

\* mutant: a label closes a block also when no line was accumulated under it
Flush_EmptyBlocks(st) ==
    [st EXCEPT
        !.blocks = IF st.current_speaker # <<>>
                   THEN Append(@, [speaker |-> st.current_speaker,
                                   text |-> _normalize_whitespace(Join(st.buf, <<SP>>))])
                   ELSE @,
        !.buf = <<>>]

\* flush(): close the accumulated block, if it has a speaker and text
Flush(st) ==
    [st EXCEPT
        !.blocks = IF st.current_speaker # <<>> /\ st.buf # <<>>
                   THEN Append(@, [speaker |-> st.current_speaker,
                                   text |-> _normalize_whitespace(Join(st.buf, <<SP>>))])
                   ELSE @,
        !.buf = <<>>]

\* the scan of the lines, from the state st
RECURSIVE ScanLines(_, _)
ScanLines(lines, st) ==
    IF lines = <<>> THEN st
    ELSE IF looks_like_speaker(lines[1])
         THEN ScanLines(Tail(lines), [Flush(st) EXCEPT !.current_speaker = lines[1]])
         ELSE IF st.current_speaker # <<>>
              THEN ScanLines(Tail(lines), [st EXCEPT !.buf = Append(@, lines[1])])
              ELSE ScanLines(Tail(lines), st)

UnknownSpeaker == <<"U","n","k","n","o","w","n">>

\* mutant: no block is made up when no speaker is found
_parse_speaker_blocks_from_text_NoFallback(full_text) ==
    LET st0 == [blocks |-> <<>>, current_speaker |-> <<>>, buf |-> <<>>]
    IN  Flush(ScanLines(TextLines(full_text), st0)).blocks

_parse_speaker_blocks_from_text(full_text) ==
    LET st0 == [blocks |-> <<>>, current_speaker |-> <<>>, buf |-> <<>>]
        blocks == Flush(ScanLines(TextLines(full_text), st0)).blocks
    IN  IF blocks = <<>>
        THEN <<[speaker |-> UnknownSpeaker, text |-> full_text]>>
        ELSE blocks

\* mutant: the text is persisted as one block without a speaker
speaker_blocks_from_text_Unparsed(full_text) ==
    <<[speaker |-> UnknownSpeaker, text |-> full_text]>>

speaker_blocks_from_text(full_text) == _parse_speaker_blocks_from_text(full_text)

\* mutant: enumerate(blocks) without start=1
CsvRows_FromZero(blocks) ==
    [k \in 1..Len(blocks) |->
        [sequence |-> k - 1, speaker |-> blocks[k].speaker, text |-> blocks[k].text]]

\* the rows save_transcript_csv_from_blocks writes under the header row
CsvRows(blocks) ==
    [k \in 1..Len(blocks) |->
        [sequence |-> k, speaker |-> blocks[k].speaker, text |-> blocks[k].text]]

(***************************************************************************)
(* Delays (sandp_transcripts.py).  A duration is a whole number of ticks,  *)
(* TicksPerSecond to the second, so that the factors 0.7, 0.6, the draws   *)
(* of random.random() and the hundredths of a second of sleep_s and        *)
(* jitter_s are exact.                                                     *)
(***************************************************************************)
TicksPerSecond == 100 * RandomSteps

\* the values random.random() returns: RandomDraws[k] stands for k / RandomSteps
RandomDraws == 0..(RandomSteps - 1)

\* the draws the controller's sleeps are followed for: the least, one in the
\* middle, the greatest
SleepDraws == {0, RandomSteps \div 2, RandomSteps - 1}

Min(a, b) == IF a <= b THEN a ELSE b

RECURSIVE Pow2(_)
Pow2(n) == IF n = 0 THEN 1 ELSE 2 * Pow2(n - 1)

\* the defaults of _backoff_delay_s, in seconds
BackoffBase == 15
BackoffCap == 600

\* mutant: the cap is not applied
_backoff_delay_s_Uncapped(attempt, base, cap, r) ==
    (base * Pow2(attempt)) * (70 * RandomSteps + 60 * r)

\* lines 41-44, in ticks: delay * (0.7 + random.random() * 0.6)
_backoff_delay_s(attempt, base, cap, r) ==
    LET delay == Min(cap, base * Pow2(attempt))
    IN  delay * (70 * RandomSteps + 60 * r)

Max(a, b) == IF a >= b THEN a ELSE b

\* mutant: the jitter is added twice
_sleep_with_jitter_Twice(base_s, jitter_s, r) ==
    IF base_s <= 0 /\ jitter_s <= 0 THEN 0
    ELSE Max(0, base_s * RandomSteps + 2 * r * Max(0, jitter_s))

\* lines 36-39: the time slept, in ticks; base_s and jitter_s are in
\* hundredths of a second
_sleep_with_jitter(base_s, jitter_s, r) ==
    IF base_s <= 0 /\ jitter_s <= 0 THEN 0
    ELSE Max(0, base_s * RandomSteps + r * Max(0, jitter_s))

(***************************************************************************)
(* Ticker list and output files (sandp_transcripts.py).                    *)
(***************************************************************************)
Year == 2025

AAPL == <<"A","A","P","L">>
MSFT == <<"M","S","F","T">>
\* a first field that reads like the rate-limit phrase
LimitTicker == <<"R","e","q","u","e","s","t"," ","L","i","m","i","t"," ","R","e","a","c","h","e","d">>

\* tickers_csv_path: a missing file, or the lines of the file
NoFile == <<"no file">>
TickersOne == << <<"A","c","t","_","S","y","m","b","o","l">>, <<" ","A","A","P","L",",","A","p","p","l","e">> >>
TickersTwo == << <<"a","c","t","_","s","y","m","b","o","l",",","n","a","m","e">>, <<" ","A","A","P","L",",","A","p","p","l","e">>, <<"M","S","F","T">> >>
\* a list that names one ticker twice
TickersTwice == << <<"a","c","t","_","s","y","m","b","o","l">>, <<"A","A","P","L">>, <<"A","A","P","L">> >>
\* a list whose ticker reads like the rate-limit phrase
TickersPhrase == << <<"a","c","t","_","s","y","m","b","o","l">>, LimitTicker \o <<",","x">> >>
GoodTickerFiles == {TickersOne, TickersTwo, TickersTwice, TickersPhrase}
TickerFiles ==
    { NoFile, <<>>, << <<"s","y","m","b","o","l">>, <<"M","S","F","T">> >>, << <<"a","c","t","_","s","y","m","b","o","l",",","n","a","m","e">> >> }
    \cup GoodTickerFiles

\* the first comma-separated field of each line after the header, stripped
RECURSIVE FirstFields(_)
FirstFields(lines) ==
    IF lines = <<>> THEN <<>>
    ELSE LET f == Strip(SplitOn(lines[1], {","})[1])
         IN  (IF f = <<>> THEN <<>> ELSE <<f>>) \o FirstFields(Tail(lines))

\* result: the exception raised (or "none") and the tickers read
_read_tickers_from_sandp_csv(file) ==
    IF file = NoFile THEN [error |-> "FileNotFoundError", tickers |-> <<>>]
    ELSE LET lines == NonEmpty(StripAll(file))
         IN  IF lines = <<>> THEN [error |-> "none", tickers |-> <<>>]
             ELSE IF ~Contains(Lower(lines[1]), <<"a","c","t","_","s","y","m","b","o","l">>)
                  THEN [error |-> "ValueError", tickers |-> <<>>]
                  ELSE [error |-> "none", tickers |-> FirstFields(Tail(lines))]

IsSafeChar(c) == IsWordChar(c) \/ c \in {".", "-"}

\* re.sub(r"[^A-Za-z0-9._-]+", "_", s); inRun = the previous character was replaced
RECURSIVE SafeFrom(_, _)
SafeFrom(s, inRun) ==
    IF s = <<>> THEN <<>>
    ELSE IF IsSafeChar(s[1]) THEN <<s[1]>> \o SafeFrom(Tail(s), FALSE)
    ELSE IF inRun THEN SafeFrom(Tail(s), TRUE)
    ELSE <<"_">> \o SafeFrom(Tail(s), TRUE)

_safe_filename(s) == SafeFrom(s, FALSE)

\* stem = f"{ticker_safe}_{year}_Q{q}" in the directory ticker_safe
Stem(ticker, q) ==
    _safe_filename(ticker) \o <<"_">> \o IntStr(Year) \o <<"_","Q">> \o IntStr(q)

AllTickers == {AAPL, MSFT, LimitTicker}
AllQuarters == {1, 2}
Stems == {Stem(t, q) : t \in AllTickers, q \in AllQuarters}

NoTxt == [exists |-> FALSE, text |-> <<>>]
NoCsv == [exists |-> FALSE, rows |-> <<>>]
CsvHeader == <<"sequence", "speaker", "text">>

\* st_size of the two kinds of output file
TxtSize(f) == Len(f.text)
CsvSize(f) == Len(CsvHeader) + Len(f.rows)

\* mutant: both files are expected, whatever outputs are requested
_already_processed_BothFiles(dir, stem, save_txt, save_csv) ==
    /\ dir[stem].txt.exists /\ TxtSize(dir[stem].txt) > 0
    /\ dir[stem].csv.exists /\ CsvSize(dir[stem].csv) > 0

\* mutant: one requested file in place is enough
_already_processed_AnyFile(dir, stem, save_txt, save_csv) ==
    \/ save_txt /\ dir[stem].txt.exists /\ TxtSize(dir[stem].txt) > 0
    \/ save_csv /\ dir[stem].csv.exists /\ CsvSize(dir[stem].csv) > 0

_already_processed(dir, stem, save_txt, save_csv) ==
    /\ save_txt \/ save_csv
    /\ save_txt => (dir[stem].txt.exists /\ TxtSize(dir[stem].txt) > 0)
    /\ save_csv => (dir[stem].csv.exists /\ CsvSize(dir[stem].csv) > 0)

save_transcript_txt_from_text(dir, stem, text) ==
    [dir EXCEPT ![stem].txt = [exists |-> TRUE, text |-> text]]

\* mutant: the .csv is written under another name than the guard expects
save_transcript_csv_from_blocks_Elsewhere(dir, stem, blocks) == dir

save_transcript_csv_from_blocks(dir, stem, blocks) ==
    [dir EXCEPT ![stem].csv = [exists |-> TRUE, rows |-> CsvRows(blocks)]]

(***************************************************************************)
(* Fragment fetcher (dcf_transcripts.py).                                  *)
(***************************************************************************)
UrlHost == <<"h","t","t","p","s",":","/","/","d","i","s","c","o","u","n","t","i","n","g","c","a","s","h","f","l","o","w","s",".","c","o","m","/","c","o","m","p","a","n","y","/">>
UrlTranscripts == <<"/","t","r","a","n","s","c","r","i","p","t","s","/">>
UrlQuery == <<"?","o","r","g",".","h","t","m","x",".","c","a","c","h","e","-","b","u","s","t","e","r","=","t","r","a","n","s","c","r","i","p","t","s","C","o","n","t","e","n","t">>

\* url = f"https://discountingcashflows.com/company/{raw_ticker}/transcripts/{year}/{q}/"
BaseUrl(ticker, q) ==
    UrlHost \o ticker \o UrlTranscripts \o IntStr(Year) \o <<"/">> \o IntStr(q) \o <<"/">>

\* part_url = f"{base_url}{i}/"; index 0 is the base url itself
PartUrl(base_url, i) == IF i = 0 THEN base_url ELSE base_url \o IntStr(i) \o <<"/">>

\* the bodies the site serves
NormalBody(i) == <<"<p>", "S">> \o IntStr(i) \o <<"</p>", "<p>", "H", "i", ".", "</p>">>
RateLimitBody == <<"<h1>">> \o <<"R","e","q","u","e","s","t"," ","L","i","m","i","t"," ","R","e","a","c","h","e","d">> \o <<"</h1>">>
MarkupOnlyBody == <<"<div>", "</div>">>
BlankBody == <<SP, NL>>
NotFoundBody == <<"<h1>">> \o <<"P","a","g","e"," ","N","o","t"," ","F","o","u","n","d">> \o <<SP>> \o <<"4","0","4">> \o <<"</h1>">>

HttpResponse(status, body) == [raised |-> FALSE, status_code |-> status, text |-> body]
\* session.get raises (requests.ConnectionError, a timeout)
NetworkFailure == [raised |-> TRUE, status_code |-> 0, text |-> <<>>]

\* what the site may answer to the request of fragment i, by kind of answer
ResponseOf(kind, i) ==
    CASE kind = "normal" -> HttpResponse(200, NormalBody(i))
      [] kind = "interstitial" -> HttpResponse(200, RateLimitBody)
      [] kind = "markup" -> HttpResponse(200, MarkupOnlyBody)
      [] kind = "blank" -> HttpResponse(200, BlankBody)
      [] kind = "notfound200" -> HttpResponse(200, NotFoundBody)
      [] kind = "notfound404" -> HttpResponse(404, NotFoundBody)
      [] kind = "forbidden" -> HttpResponse(403, RateLimitBody)
      [] kind = "servererror" -> HttpResponse(500, <<>>)
      [] kind = "network" -> NetworkFailure

AllKinds ==
    {"normal", "interstitial", "markup", "blank", "notfound200", "notfound404",
     "forbidden", "servererror", "network"}
DeepKinds == {"normal", "blank", "notfound200", "notfound404", "servererror", "network"}
BatchKinds == {"normal", "interstitial", "notfound404", "forbidden", "network"}

PageNotFound == <<"P","a","g","e"," ","N","o","t"," ","F","o","u","n","d">>
Token404 == <<"4","0","4">>

\* the url as requests sends it and reports it in r.url: a space is quoted
requote_uri(s) == Join(SplitOn(s, {SP}), <<"%", "2", "0">>)

\* mutant: the message carries the url as the caller wrote it
HttpErrorMessage_RawUrl(status, url) ==
    <<"H","T","T","P"," ">> \o IntStr(status) \o <<" ","f","o","r"," ">> \o url \o UrlQuery

\* TranscriptScrapeError(f"HTTP {r.status_code} for {r.url}")
HttpErrorMessage(status, url) ==
    <<"H","T","T","P"," ">> \o IntStr(status) \o <<" ","f","o","r"," ">>
        \o requote_uri(url) \o UrlQuery

\* mutant: either mark of the not-found template makes the fragment absent
_fetch_fragment_EitherMark(r, url) ==
    IF r.raised THEN [kind |-> "other_error", body |-> <<>>, msg |-> <<>>]
    ELSE IF r.status_code = 404 THEN [kind |-> "none", body |-> <<>>, msg |-> <<>>]
    ELSE IF r.status_code >= 400
         THEN [kind |-> "scrape_error", body |-> <<>>,
               msg |-> HttpErrorMessage(r.status_code, url)]
    ELSE LET body == Strip(r.text)
         IN  IF body = <<>> THEN [kind |-> "none", body |-> <<>>, msg |-> <<>>]
             ELSE IF Contains(body, PageNotFound) \/ Contains(body, Token404)
                  THEN [kind |-> "none", body |-> <<>>, msg |-> <<>>]
                  ELSE [kind |-> "body", body |-> body, msg |-> <<>>]

\* result kinds: "body" (Content), "none" (Absent), "scrape_error" (a
\* TranscriptScrapeError is raised), "other_error" (another exception is raised)
_fetch_fragment(r, url) ==
    IF r.raised THEN [kind |-> "other_error", body |-> <<>>, msg |-> <<>>]
    ELSE IF r.status_code = 404 THEN [kind |-> "none", body |-> <<>>, msg |-> <<>>]
    ELSE IF r.status_code >= 400
         THEN [kind |-> "scrape_error", body |-> <<>>,
               msg |-> HttpErrorMessage(r.status_code, url)]
    ELSE LET body == Strip(r.text)
         IN  IF body = <<>> THEN [kind |-> "none", body |-> <<>>, msg |-> <<>>]
             ELSE IF Contains(body, PageNotFound) /\ Contains(body, Token404)
                  THEN [kind |-> "none", body |-> <<>>, msg |-> <<>>]
                  ELSE [kind |-> "body", body |-> body, msg |-> <<>>]

EmptyResultMessage ==
    <<"N","o"," ","t","r","a","n","s","c","r","i","p","t"," ","f","r","a","g","m","e","n","t","s"," ","r","e","t","r","i","e","v","e","d","."," ","T","h","i","s"," ","m","a","y"," ","b","e"," ","g","a","t","e","d"," ","(","l","o","g","i","n","/","a","n","t","i","-","b","o","t",")"," ","o","r"," ","t","h","e"," ","U","R","L"," ","p","a","t","t","e","r","n"," ","c","h","a","n","g","e","d","."," ","T","r","y"," ","p","a","s","s","i","n","g"," ","c","s","r","f","t","o","k","e","n","/","c","o","o","k","i","e","s"," ","f","r","o","m"," ","t","h","e"," ","b","r","o","w","s","e","r",".">>

(***************************************************************************)
(* The calls and the site.                                                 *)
(***************************************************************************)
\* one unit, many parts: the assembler's scan
DeepCall ==
    [tickers_file |-> TickersOne, quarters |-> <<1>>, save_txt |-> TRUE, save_csv |-> TRUE,
     max_parts |-> MaxPartsDeep, max_rate_limit_retries |-> 0, sleep_s |-> 0, jitter_s |-> 0,
     kinds |-> DeepKinds]

\* one unit, every kind of answer, every choice of outputs
WideCalls ==
    { [tickers_file |-> TickersOne, quarters |-> <<1>>, save_txt |-> t, save_csv |-> c,
       max_parts |-> 1, max_rate_limit_retries |-> MaxRetries, sleep_s |-> 0, jitter_s |-> 35,
     kinds |-> AllKinds] :
      t \in BOOLEAN, c \in BOOLEAN }

\* two tickers, two quarters, the base fragment only
BatchCall ==
    [tickers_file |-> TickersTwo, quarters |-> <<1, 2>>, save_txt |-> TRUE, save_csv |-> TRUE,
     max_parts |-> 0, max_rate_limit_retries |-> MaxRetries, sleep_s |-> 60, jitter_s |-> 0,
     kinds |-> BatchKinds]

\* calls whose ticker file yields no ticker
BadCalls ==
    { [tickers_file |-> f, quarters |-> <<1, 2>>, save_txt |-> TRUE, save_csv |-> TRUE,
       max_parts |-> 0, max_rate_limit_retries |-> MaxRetries, sleep_s |-> 60, jitter_s |-> 80,
     kinds |-> BatchKinds] :
      f \in TickerFiles \ GoodTickerFiles }

\* one ticker listed twice, one quarter, the .txt only
TwiceCall ==
    [tickers_file |-> TickersTwice, quarters |-> <<2>>, save_txt |-> TRUE, save_csv |-> FALSE,
     max_parts |-> 0, max_rate_limit_retries |-> 0, sleep_s |-> 60, jitter_s |-> 80,
     kinds |-> {"normal", "notfound404"}]

\* one ticker that reads like the rate-limit phrase, answered 200 or 403
PhraseCall ==
    [tickers_file |-> TickersPhrase, quarters |-> <<1>>, save_txt |-> TRUE, save_csv |-> FALSE,
     max_parts |-> 0, max_rate_limit_retries |-> 1, sleep_s |-> 0, jitter_s |-> 0,
     kinds |-> {"normal", "forbidden"}]

Calls == {DeepCall} \cup WideCalls \cup {BatchCall, TwiceCall, PhraseCall} \cup BadCalls

\* a unit of work is a position of the two loops: <<index of ticker, index of quarter>>
Units == (1..2) \X (1..2)

VARIABLES
    call,       \* the arguments of the current call (with the kinds of answer of the site)
    run,        \* number of the current call on this output_dir
    pc,         \* control location of fetch_all_transcripts_for_year
    exc,        \* the exception the call raised to its caller, or "none"
    tickers,    \* the list read by _read_tickers_from_sandp_csv
    ti, qi,     \* positions of the two loops
    attempt,    \* rate-limit retries used by the unit fetched last
    fragments,  \* get_transcript_html: the fragments collected
    i,          \* get_transcript_html: the numbered index to request next
    html,       \* result of get_transcript_html
    text,       \* transcript_text_from_html(html)
    err,        \* the exception caught by the handlers of the current unit
    files,      \* output_dir: stem -> the .txt and the .csv
    outcome,    \* history: state of each unit in this run
    reqLog,     \* history: index, classification and body of the requests of the current pass
    passes,     \* history: assembly passes started by the current unit
    unitReqs,   \* history: requests issued by the current unit
    requested,  \* history: units with at least one request in this run
    wrote,      \* history: files written for each unit in this run
    prevDone,   \* history: units the previous run left complete
    slept,      \* history: the time slept in the last step, in ticks
    arg,        \* the arguments of the function applied on its own
    result      \* its result

vars == <<call, run, pc, exc, tickers, ti, qi, attempt, fragments, i, html, text, err, files,
          outcome, reqLog, passes, unitReqs, requested, wrote, prevDone, slept, arg, result>>

locals == <<attempt, fragments, i, html, text, err>>

u == <<ti, qi>>
ticker == tickers[ti]
q == call.quarters[qi]
stem == Stem(ticker, q)
url == BaseUrl(ticker, q)

NoFiles == [s \in Stems |-> [txt |-> NoTxt, csv |-> NoCsv]]
NoErr == [type |-> "none", msg |-> <<>>]
NoArg == [fn |-> "none"]
NoRes == <<>>

ProgramInit ==
    /\ call \in Calls
    /\ run = 1
    /\ pc = "call"
    /\ exc = "none"
    /\ tickers = <<>>
    /\ ti = 1 /\ qi = 1
    /\ attempt = 0
    /\ fragments = <<>>
    /\ i = 1
    /\ html = <<>>
    /\ text = <<>>
    /\ err = NoErr
    /\ files = NoFiles
    /\ outcome = [x \in Units |-> "PENDING"]
    /\ reqLog = <<>>
    /\ passes = 0
    /\ unitReqs = 0
    /\ requested = {}
    /\ wrote = [x \in Units |-> {}]
    /\ prevDone = {}
    /\ slept = 0

Init == ProgramInit /\ arg = NoArg /\ result = NoRes

\* the locals of a pass are dead once the unit has ended
ResetLocals ==
    /\ fragments' = <<>>
    /\ i' = 1
    /\ html' = <<>>
    /\ text' = <<>>
    /\ err' = NoErr
    /\ reqLog' = <<>>
    /\ passes' = 0
    /\ unitReqs' = 0

\* mutant: the loops are nested the other way round
NextUnit_QuarterMajor ==
    IF ti < Len(tickers)
    THEN /\ ti' = ti + 1 /\ qi' = qi /\ pc' = "guard"
    ELSE IF qi < Len(call.quarters)
         THEN /\ qi' = qi + 1 /\ ti' = 1 /\ pc' = "guard"
         ELSE /\ ti' = ti /\ qi' = qi /\ pc' = "returned"

\* the two for loops: the next unit, or the return at the end of the ticker list
NextUnit ==
    IF qi < Len(call.quarters)
    THEN /\ qi' = qi + 1 /\ ti' = ti /\ pc' = "guard"
    ELSE IF ti < Len(tickers)
         THEN /\ ti' = ti + 1 /\ qi' = 1 /\ pc' = "guard"
         ELSE /\ ti' = ti /\ qi' = qi /\ pc' = "returned"

\* lines 117-128: read the ticker list
Enter ==
    /\ pc = "call"
    /\ LET rd == _read_tickers_from_sandp_csv(call.tickers_file)
       IN  IF rd.error # "none"
           THEN /\ exc' = rd.error /\ pc' = "raised" /\ tickers' = <<>>
           ELSE IF rd.tickers = <<>>
                THEN /\ exc' = "ValueError" /\ pc' = "raised" /\ tickers' = <<>>
                ELSE /\ exc' = "none" /\ tickers' = rd.tickers
                     /\ pc' = IF call.quarters = <<>> THEN "returned" ELSE "guard"
    /\ slept' = 0
    /\ UNCHANGED <<arg, result, call, run, ti, qi, locals, files, outcome, reqLog, passes, unitReqs,
                   requested, wrote, prevDone>>

\* mutant: the retry count of the unit before is carried over
StartAttempt_CarriedOver(previous) == previous

\* line 139: attempt = 0
StartAttempt(previous) == 0

\* lines 131-139: the entry guard of a unit; a unit that is skipped leaves
\* attempt as the unit before left it
Guard ==
    /\ pc = "guard"
    /\ IF _already_processed(files, stem, call.save_txt, call.save_csv)
       THEN /\ outcome' = [outcome EXCEPT ![u] = "SKIPPED_DONE"]
            /\ NextUnit
            /\ attempt' = attempt
       ELSE /\ outcome' = [outcome EXCEPT ![u] = "FETCHING"]
            /\ pc' = "fetch_base"
            /\ attempt' = StartAttempt(attempt)
            /\ UNCHANGED <<ti, qi>>
    /\ slept' = 0
    /\ UNCHANGED <<arg, result, call, run, exc, tickers, fragments, i, html, text, err, files,
                   reqLog, passes, unitReqs, requested, wrote, prevDone>>

\* mutant: one retry more than the budget
Exhausted_OffByOne(att, max_rate_limit_retries) == att > max_rate_limit_retries

\* lines 148 and 181: the retry budget of the unit is used up
Exhausted(att, max_rate_limit_retries) == att >= max_rate_limit_retries

\* mutant: the exhaustion of the budget gives the unit up and the run goes on
OnRateLimit_SkipsUnit ==
    IF Exhausted(attempt, call.max_rate_limit_retries)
    THEN /\ pc' = "pace" /\ exc' = exc
         /\ outcome' = [outcome EXCEPT ![u] = "ABORTED"]
    ELSE /\ pc' = "backoff" /\ exc' = exc
         /\ outcome' = [outcome EXCEPT ![u] = "RATE_LIMITED_RETRY"]

\* lines 147-156 and 180-189: the unit is rate-limited
OnRateLimit ==
    IF Exhausted(attempt, call.max_rate_limit_retries)
    THEN /\ pc' = "raised" /\ exc' = "RateLimitReached"
         /\ outcome' = [outcome EXCEPT ![u] = "ABORTED"]
    ELSE /\ pc' = "backoff" /\ exc' = exc
         /\ outcome' = [outcome EXCEPT ![u] = "RATE_LIMITED_RETRY"]

\* mutant: every scrape error is treated as rate limiting
OnScrapeError_AlwaysRetry(msg) ==
    /\ err' = [type |-> "TranscriptScrapeError", msg |-> msg]
    /\ OnRateLimit

\* lines 177-192: the handler of TranscriptScrapeError
OnScrapeError(msg) ==
    /\ err' = [type |-> "TranscriptScrapeError", msg |-> msg]
    /\ IF is_rate_limited_message(msg)
       THEN OnRateLimit
       ELSE /\ pc' = "pace" /\ exc' = exc
            /\ outcome' = [outcome EXCEPT ![u] = "SKIPPED"]

\* mutant: an unexpected exception is raised to the caller
OnOtherError_Reraise(type) ==
    /\ err' = [type |-> type, msg |-> <<>>]
    /\ pc' = "raised" /\ exc' = type
    /\ outcome' = [outcome EXCEPT ![u] = "FAILED"]

\* lines 198-201: the handler of any other exception
OnOtherError(type) ==
    /\ err' = [type |-> type, msg |-> <<>>]
    /\ pc' = "pace" /\ exc' = exc
    /\ outcome' = [outcome EXCEPT ![u] = "FAILED"]

\* mutant: range(1, cfg.max_parts + 2)
ContinueAt_OneMore(n) ==
    /\ i' = n
    /\ pc' = IF n <= call.max_parts + 1 THEN "fetch_part" ELSE "assemble"

\* the loop of get_transcript_html goes on to index n, or ends
ContinueAt(n) ==
    /\ i' = n
    /\ pc' = IF n <= call.max_parts THEN "fetch_part" ELSE "assemble"

\* mutant: an absent part never ends the scan
AbsentStops_Never(frags) == FALSE

\* mutant: an absent part ends the scan even when nothing was collected
AbsentStops_Always(frags) == TRUE

\* dcf lines 145-151: an absent part ends the scan once something was collected
AbsentStops(frags) == frags # <<>>

\* mutant: an empty result is returned like any other
NothingRetrieved_Never(frags) == FALSE

\* dcf line 156: nothing was collected
NothingRetrieved(frags) == frags = <<>>

\* dcf line 162
JoinFragments(frags) == Join(frags, <<NL>>)

LogEntry(index, res) == [index |-> index, got |-> res.kind, body |-> res.body]

\* dcf lines 134-139: a pass begins; the base url is requested
FetchBase ==
    /\ pc = "fetch_base"
    /\ \E kind \in call.kinds :
         LET first == _fetch_fragment(ResponseOf(kind, 0), PartUrl(url, 0))
         IN  /\ reqLog' = <<LogEntry(0, first)>>
             /\ CASE first.kind = "body" ->
                       /\ fragments' = <<first.body>>
                       /\ ContinueAt(1)
                       /\ err' = NoErr
                       /\ UNCHANGED <<exc, outcome>>
                  [] first.kind = "none" ->
                       /\ fragments' = <<>>
                       /\ ContinueAt(1)
                       /\ err' = NoErr
                       /\ UNCHANGED <<exc, outcome>>
                  [] first.kind = "scrape_error" ->
                       /\ OnScrapeError(first.msg)
                       /\ fragments' = <<>> /\ i' = i
                  [] first.kind = "other_error" ->
                       /\ OnOtherError("ConnectionError")
                       /\ fragments' = <<>> /\ i' = i
    /\ passes' = passes + 1
    /\ unitReqs' = unitReqs + 1
    /\ requested' = requested \cup {u}
    /\ slept' = 0
    /\ UNCHANGED <<arg, result, call, run, tickers, ti, qi, attempt, html, text, files, wrote, prevDone>>

\* mutant: an error of a numbered part ends the scan like an absent part
FetchPart_ErrorEndsScan ==
    /\ pc = "fetch_part"
    /\ \E kind \in call.kinds :
         LET body == _fetch_fragment(ResponseOf(kind, i), PartUrl(url, i))
         IN  /\ reqLog' = Append(reqLog, LogEntry(i, body))
             /\ CASE body.kind = "body" ->
                       /\ fragments' = Append(fragments, body.body)
                       /\ ContinueAt(i + 1)
                       /\ UNCHANGED <<exc, outcome, err>>
                  [] body.kind = "none" ->
                       /\ fragments' = fragments
                       /\ IF AbsentStops(fragments)
                          THEN /\ pc' = "assemble" /\ i' = i
                          ELSE ContinueAt(i + 1)
                       /\ UNCHANGED <<exc, outcome, err>>
                  [] body.kind = "scrape_error" ->
                       /\ pc' = "assemble"
                       /\ UNCHANGED <<fragments, i, exc, outcome, err>>
                  [] body.kind = "other_error" ->
                       /\ OnOtherError("ConnectionError")
                       /\ UNCHANGED <<fragments, i>>
    /\ unitReqs' = unitReqs + 1
    /\ requested' = requested \cup {u}
    /\ slept' = 0
    /\ UNCHANGED <<arg, result, call, run, tickers, ti, qi, attempt, html, text, files, passes, wrote,
                   prevDone>>

\* dcf lines 142-154: the numbered part i is requested
FetchPart ==
    /\ pc = "fetch_part"
    /\ \E kind \in call.kinds :
         LET body == _fetch_fragment(ResponseOf(kind, i), PartUrl(url, i))
         IN  /\ reqLog' = Append(reqLog, LogEntry(i, body))
             /\ CASE body.kind = "body" ->
                       /\ fragments' = Append(fragments, body.body)
                       /\ ContinueAt(i + 1)
                       /\ UNCHANGED <<exc, outcome, err>>
                  [] body.kind = "none" ->
                       /\ fragments' = fragments
                       /\ IF AbsentStops(fragments)
                          THEN /\ pc' = "assemble" /\ i' = i
                          ELSE ContinueAt(i + 1)
                       /\ UNCHANGED <<exc, outcome, err>>
                  [] body.kind = "scrape_error" ->
                       /\ OnScrapeError(body.msg)
                       /\ UNCHANGED <<fragments, i>>
                  [] body.kind = "other_error" ->
                       /\ OnOtherError("ConnectionError")
                       /\ UNCHANGED <<fragments, i>>
    /\ unitReqs' = unitReqs + 1
    /\ requested' = requested \cup {u}
    /\ slept' = 0
    /\ UNCHANGED <<arg, result, call, run, tickers, ti, qi, attempt, html, text, files, passes, wrote,
                   prevDone>>

\* dcf lines 156-162 and line 144: the end of the pass
Assemble ==
    /\ pc = "assemble"
    /\ IF NothingRetrieved(fragments)
       THEN /\ OnScrapeError(EmptyResultMessage)
            /\ UNCHANGED <<html, text>>
       ELSE /\ html' = JoinFragments(fragments)
            /\ text' = transcript_text_from_html(html')
            /\ pc' = "check"
            /\ UNCHANGED <<exc, outcome, err>>
    /\ slept' = 0
    /\ UNCHANGED <<arg, result, call, run, tickers, ti, qi, attempt, fragments, i, files, reqLog, passes,
                   unitReqs, requested, wrote, prevDone>>

\* mutant: the text is saved without the test of the rate-limit page
Check_NeverLimited ==
    /\ pc = "check"
    /\ pc' = "save" /\ UNCHANGED <<exc, outcome>>
    /\ slept' = 0
    /\ UNCHANGED <<arg, result, call, run, tickers, ti, qi, locals, files, reqLog, passes, unitReqs,
                   requested, wrote, prevDone>>

\* lines 146-151: the rate-limit page is detected
Check ==
    /\ pc = "check"
    /\ IF is_rate_limited_message(text)
       THEN OnRateLimit
       ELSE /\ pc' = "save" /\ UNCHANGED <<exc, outcome>>
    /\ slept' = 0
    /\ UNCHANGED <<arg, result, call, run, tickers, ti, qi, locals, files, reqLog, passes, unitReqs,
                   requested, wrote, prevDone>>

\* mutant: after the backoff delay the unit is given up
Backoff_GivesUp ==
    /\ pc = "backoff"
    /\ attempt' = attempt + 1
    /\ outcome' = [outcome EXCEPT ![u] = "SKIPPED"]
    /\ pc' = "pace"
    /\ slept' = 0
    /\ UNCHANGED <<arg, result, call, run, exc, tickers, ti, qi, fragments, i, html, text, err, files,
                   reqLog, passes, unitReqs, requested, wrote, prevDone>>

\* lines 152-156 (185-189): sleep the backoff delay, then fetch again
Backoff ==
    /\ pc = "backoff"
    /\ \E r \in SleepDraws : slept' = _backoff_delay_s(attempt, BackoffBase, BackoffCap, r)
    /\ attempt' = attempt + 1
    /\ outcome' = [outcome EXCEPT ![u] = "FETCHING"]
    /\ pc' = "fetch_base"
    /\ UNCHANGED <<arg, result, call, run, exc, tickers, ti, qi, fragments, i, html, text, err, files,
                   reqLog, passes, unitReqs, requested, wrote, prevDone>>

\* what the file system does to the two writes of a unit: both succeed, or
\* opening the .txt, or opening the .csv, raises OSError
IoOutcomes == {"ok", "txt_error", "csv_error"}

\* lines 158-175, and 198-201 when a write raises
Save ==
    /\ pc = "save"
    /\ \E io \in IoOutcomes :
         /\ io = "txt_error" => call.save_txt
         /\ io = "csv_error" => call.save_csv
         /\ LET doTxt == call.save_txt /\ io # "txt_error"
                doCsv == call.save_csv /\ io = "ok"
                withTxt == IF doTxt THEN save_transcript_txt_from_text(files, stem, text)
                           ELSE files
            IN  /\ files' = IF doCsv
                            THEN save_transcript_csv_from_blocks(
                                     withTxt, stem, speaker_blocks_from_text(text))
                            ELSE withTxt
                /\ wrote' = [wrote EXCEPT ![u] = (IF doTxt THEN {"txt"} ELSE {})
                                                  \cup (IF doCsv THEN {"csv"} ELSE {})]
         /\ outcome' = [outcome EXCEPT ![u] = IF io = "ok" THEN "DONE" ELSE "FAILED"]
         /\ err' = IF io = "ok" THEN err ELSE [type |-> "OSError", msg |-> <<>>]
    /\ pc' = "pace"
    /\ slept' = 0
    /\ UNCHANGED <<arg, result, call, run, exc, tickers, ti, qi, attempt, fragments, i, html, text,
                   reqLog, passes, unitReqs, requested, prevDone>>

\* lines 203-204: the pacing sleep, then the next unit
Pace ==
    /\ pc = "pace"
    /\ \E r \in SleepDraws : slept' = _sleep_with_jitter(call.sleep_s, call.jitter_s, r)
    /\ NextUnit
    /\ ResetLocals
    /\ UNCHANGED <<arg, result, call, run, exc, tickers, attempt, files, outcome, requested, wrote,
                   prevDone>>

\* the units of the call
UnitsOfCall == {x \in Units : x[1] <= Len(tickers) /\ x[2] <= Len(call.quarters)}

\* the units of the run that ended whose requested outputs it left complete
Complete ==
    {x \in UnitsOfCall :
        /\ call.save_txt \/ call.save_csv
        /\ outcome[x] \in {"DONE", "SKIPPED_DONE"}
        /\ call.save_txt =>
             TxtSize(files[Stem(tickers[x[1]], call.quarters[x[2]])].txt) > 0}

\* the function is called again with the same arguments on the same output_dir
StartRun ==
    /\ pc \in {"returned", "raised"}
    /\ run < NumRuns
    /\ run' = run + 1
    /\ prevDone' = Complete
    /\ pc' = "call"
    /\ exc' = "none"
    /\ tickers' = <<>>
    /\ ti' = 1 /\ qi' = 1
    /\ attempt' = 0
    /\ ResetLocals
    /\ outcome' = [x \in Units |-> "PENDING"]
    /\ requested' = {}
    /\ wrote' = [x \in Units |-> {}]
    /\ slept' = 0
    /\ UNCHANGED <<arg, result, call, files>>

Next ==
    \/ Enter
    \/ Guard
    \/ FetchBase
    \/ FetchPart
    \/ Assemble
    \/ Check
    \/ Backoff
    \/ Save
    \/ Pace
    \/ StartRun

Spec == Init /\ [][Next]_vars

(***************************************************************************)
(* The functions applied on their own: the arguments are drawn in the      *)
(* initial state and one step applies the function to them.                *)
(***************************************************************************)
program == <<call, run, pc, exc, tickers, ti, qi, attempt, fragments, i, html, text, err,
             files, outcome, reqLog, passes, unitReqs, requested, wrote, prevDone, slept>>

BackoffArgs ==
    [fn : {"_backoff_delay_s"}, attempt : 0..MaxAttempt, random : RandomDraws]

\* str.upper(), to spell the arguments
Upper(s) ==
    [k \in 1..Len(s) |->
        IF \E n \in 1..26 : LowerLetters[n] = s[k]
        THEN UpperLetters[CHOOSE n \in 1..26 : LowerLetters[n] = s[k]]
        ELSE s[k]]

\* every other letter in upper case
Mixed(s) == [k \in 1..Len(s) |-> IF k % 2 = 0 THEN Upper(<<s[k]>>)[1] ELSE Lower(<<s[k]>>)[1]]

\* texts around the rate-limit phrases: each phrase in four spellings, and
\* texts that hold none of them
PhraseSpellings ==
    UNION {{_LIMIT_REACHED_PATTERNS[k], Lower(_LIMIT_REACHED_PATTERNS[k]),
            Upper(_LIMIT_REACHED_PATTERNS[k]), Mixed(_LIMIT_REACHED_PATTERNS[k])} :
           k \in 1..Len(_LIMIT_REACHED_PATTERNS)}

NearMisses ==
    { <<>>,
      <<"n","o","r","m","a","l"," ","t","r","a","n","s","c","r","i","p","t"," ","c","o","n","t","e","n","t">>,
      <<"R","e","q","u","e","s","t"," ","L","i","m","i","t">>,
      <<"R","e","q","u","e","s","t"," "," ","L","i","m","i","t"," ","R","e","a","c","h","e","d">>,
      <<"R","e","q","u","e","s","t"," ","L","i","m","i","t",NL,"R","e","a","c","h","e","d">>,
      <<"L","i","m","i","t"," ","R","e","a","c","h","e","d">>,
      <<"R","e","q","u","e","s","t","L","i","m","i","t","R","e","a","c","h","e","d">>,
      <<"y","o","u"," ","s","e","e","m"," ","t","o"," ","h","a","v","e"," ","r","e","a","c","h","e","d"," ","y","o","u","r"," ","l","i","m","i","t">> }

TextsBefore == { <<>>, <<"4","0","3"," ">>, <<"E","r","r","o","r",":",NL>> }
TextsAfter == { <<>>, <<".">>, <<NL,"T","r","y"," ","a","g","a","i","n"," ","l","a","t","e","r">> }

RateLimitTexts ==
    {a \o c \o b : a \in TextsBefore, c \in PhraseSpellings \cup NearMisses, b \in TextsAfter}

RateLimitArgs == [fn : {"is_rate_limited_message"}, text : RateLimitTexts]

\* the lines the transcripts are made of
Operator == <<"O","p","e","r","a","t","o","r">>
TimCook == <<" ","T","i","m"," ","C","o","o","k">>
Welcome == <<"W","e","l","c","o","m","e",".">>
Thanks == <<"T","h","a","n","k","s"," ","e","v","e","r","y","o","n","e",".">>
FiscalYear == <<"F","i","s","c","a","l"," ","Y","e","a","r"," ","2","0","2","5">>
SixWords == <<"W","e"," ","a","r","e"," ","g","l","a","d"," ","t","o"," ","b","e"," ","h","e","r","e">>
LinePool == {Operator, TimCook, Welcome, Thanks, FiscalYear, SixWords, <<>>}

LineLists == UNION {[1..n -> LinePool] : n \in 0..MaxLines}

SegmenterArgs ==
    {[fn |-> "speaker_blocks_from_text", lines |-> ls, text |-> Join(ls, <<NL>>)] :
        ls \in LineLists}

\* the answers _fetch_fragment is applied to
Statuses == {200, 204, 206, 301, 304, 400, 403, 404, 429, 500, 503}

Bodies ==
    { <<>>, BlankBody, NormalBody(0), <<SP, NL>> \o NormalBody(1) \o <<NL>>,
      NotFoundBody, <<NL>> \o NotFoundBody,
      PageNotFound, Token404, Token404 \o <<SP>> \o PageNotFound,
      <<"p","a","g","e",SP,"n","o","t",SP,"f","o","u","n","d",SP,"4","0","4">> }

FetchArgs == [fn : {"_fetch_fragment"}, status : Statuses, body : Bodies]

FunArgs == BackoffArgs \cup RateLimitArgs \cup SegmenterArgs \cup FetchArgs

FunInit == ProgramInit /\ call = DeepCall /\ arg \in FunArgs /\ result = NoRes

Apply_backoff_delay_s ==
    /\ arg.fn = "_backoff_delay_s" /\ result = NoRes
    /\ result' = [delay |-> _backoff_delay_s(arg.attempt, BackoffBase, BackoffCap, arg.random)]
    /\ UNCHANGED <<program, arg>>

Apply_is_rate_limited_message ==
    /\ arg.fn = "is_rate_limited_message" /\ result = NoRes
    /\ result' = [value |-> is_rate_limited_message(arg.text)]
    /\ UNCHANGED <<program, arg>>

\* the blocks of the text, and the rows of the .csv written from them
Apply_speaker_blocks_from_text ==
    /\ arg.fn = "speaker_blocks_from_text" /\ result = NoRes
    /\ LET blocks == speaker_blocks_from_text(arg.text)
           s == Stem(AAPL, 1)
       IN  result' = [blocks |-> blocks,
                      rows |-> save_transcript_csv_from_blocks(NoFiles, s, blocks)[s].csv.rows]
    /\ UNCHANGED <<program, arg>>

\* line 96 sends one request; lines 98-115 classify its answer
Apply__fetch_fragment ==
    /\ arg.fn = "_fetch_fragment" /\ result = NoRes
    /\ LET target == BaseUrl(AAPL, 1)
           r == HttpResponse(arg.status, arg.body)
       IN  result' = [requests |-> <<target \o UrlQuery>>, url |-> target \o UrlQuery,
                      got |-> _fetch_fragment(r, target)]
    /\ UNCHANGED <<program, arg>>

FunNext ==
    \/ Apply_backoff_delay_s
    \/ Apply__fetch_fragment
    \/ Apply_speaker_blocks_from_text
    \/ Apply_is_rate_limited_message

FunSpec == FunInit /\ [][FunNext]_vars

(***************************************************************************)
(* Properties of the fragment assembler (get_transcript_html).             *)
(***************************************************************************)
\* the request log numbers the base 0 and the parts 1, 2, ...
LogIsIndexed == \A k \in 1..Len(reqLog) : reqLog[k].index = k - 1

\* fragments 0, 1, 2 are Content and fragment 3 is Absent
C1_Pattern ==
    /\ Len(reqLog) >= 4
    /\ reqLog[1].got = "body" /\ reqLog[2].got = "body" /\ reqLog[3].got = "body"
    /\ reqLog[4].got = "none"

\* C1: when the base and the parts 1 and 2 are Content and part 3 is Absent,
\* the scan stops at index 3 (no later index is requested) and the document
\* returned is the three bodies, in that order, joined by a line break.
C1_JoinedInOrder ==
    /\ LogIsIndexed
    /\ C1_Pattern =>
         /\ Len(reqLog) = 4
         /\ pc \notin {"fetch_base", "fetch_part"}
         /\ pc # "assemble" =>
              html = reqLog[1].body \o <<NL>> \o reqLog[2].body \o <<NL>> \o reqLog[3].body

C1_Witness == C1_Pattern /\ pc = "check" /\ call.max_parts > 3

\* C2: an Absent base does not end the scan: with part 1 Content, part 1 is
\* collected and the parts 2, 3, ... are requested until the first Absent one
\* or max_parts; and as long as nothing was collected, an Absent part is
\* skipped and the next index is requested.
C2_SkipsLeadingAbsent ==
    LET n == Len(reqLog)
    IN  /\ (n >= 1 /\ (\A k \in 1..n : reqLog[k].got = "none")
               /\ reqLog[n].index < call.max_parts)
            => (pc = "fetch_part" /\ i = reqLog[n].index + 1)
        /\ (n >= 2 /\ reqLog[1].got = "none" /\ reqLog[2].got = "body")
            => /\ fragments # <<>> /\ fragments[1] = reqLog[2].body
               /\ \A k \in 3..(n - 1) : reqLog[k].got = "body"
               /\ (reqLog[n].got = "body" /\ reqLog[n].index < call.max_parts)
                    => (pc = "fetch_part" /\ i = reqLog[n].index + 1)
               /\ reqLog[n].got = "none" => pc # "fetch_part"

C2_Witness ==
    /\ Len(reqLog) >= 4 /\ pc = "check"
    /\ reqLog[1].got = "none" /\ reqLog[2].got = "none" /\ reqLog[3].got = "body"
    /\ reqLog[4].got = "body"

\* every request of the pass was classified Absent
AllAbsent == reqLog # <<>> /\ \A k \in 1..Len(reqLog) : reqLog[k].got = "none"

\* C3: a pass none of whose requests is Content (the base and every part up
\* to max_parts Absent) fails with the empty-result TranscriptScrapeError and
\* never returns; every pass that returns holds at least one fragment.
C3_EmptyResultFails ==
    /\ (AllAbsent /\ pc \notin {"fetch_part", "assemble"})
         => /\ Len(reqLog) = call.max_parts + 1
            /\ err = [type |-> "TranscriptScrapeError", msg |-> EmptyResultMessage]
            /\ pc \notin {"check", "save"}
            /\ outcome[u] # "DONE"
    /\ pc \in {"check", "save"}
         => /\ fragments # <<>>
            /\ \E k \in 1..Len(reqLog) : reqLog[k].got = "body"

C3_Witness == AllAbsent /\ pc = "pace" /\ call.max_parts = MaxPartsDeep

(***************************************************************************)
(* Properties of the batch retry controller                                *)
(* (fetch_all_transcripts_for_year).                                       *)
(***************************************************************************)
\* C4: a pass whose normalized text is a rate-limit page is followed by the
\* backoff sleep and a new pass while fewer than max_rate_limit_retries
\* retries were used, and by RateLimitReached otherwise, which ends the run;
\* so a unit starts at most max_rate_limit_retries + 1 passes.
C4_RetryBounded ==
    /\ [](passes <= call.max_rate_limit_retries + 1)
    /\ [][(pc = "check" /\ is_rate_limited_message(text)) =>
            IF attempt < call.max_rate_limit_retries
            THEN pc' = "backoff" /\ exc' = "none"
            ELSE pc' = "raised" /\ exc' = "RateLimitReached"]_vars
    /\ [][pc = "backoff" =>
            (pc' = "fetch_base" /\ attempt' = attempt + 1 /\ outcome'[u] = "FETCHING")]_vars
    /\ [][pc = "raised" => (pc' = "call" /\ run' = run + 1 /\ files' = files)]_vars

C4_Witness ==
    /\ pc = "raised" /\ exc = "RateLimitReached"
    /\ passes = MaxRetries + 1 /\ attempt = MaxRetries
    /\ u = <<1, 2>>

\* every output the call asks for is in place, and not empty, for the current unit
ExpectedPresent ==
    /\ call.save_txt \/ call.save_csv
    /\ call.save_txt => (files[stem].txt.exists /\ files[stem].txt.text # <<>>)
    /\ call.save_csv => files[stem].csv.exists

\* C5: a unit whose expected output files exist and are not empty when it is
\* reached goes straight to SKIPPED: no request is issued for it and no file
\* is written.
C5_EntryGuardSkips ==
    /\ [](\A x \in Units : outcome[x] = "SKIPPED_DONE" => (x \notin requested /\ wrote[x] = {}))
    /\ [][(pc = "guard" /\ ExpectedPresent) =>
            /\ outcome'[u] = "SKIPPED_DONE"
            /\ pc' \in {"guard", "returned"}
            /\ files' = files /\ wrote' = wrote
            /\ requested' = requested /\ unitReqs' = unitReqs]_vars

C5_Witness ==
    /\ run = 2 /\ pc = "returned"
    /\ outcome[<<1, 1>>] = "SKIPPED_DONE"
    /\ ~call.save_csv /\ call.save_txt

C7_NoPartialOutput ==
    (call.save_txt /\ call.save_csv) =>
        \A x \in Units : wrote[x] \in {{}, {"txt", "csv"}}

TerminalOutcomes == {"DONE", "SKIPPED", "SKIPPED_DONE", "FAILED"}

Successor == IF qi < Len(call.quarters) THEN <<ti, qi + 1>> ELSE <<ti + 1, 1>>

\* the pass of the current unit failed with an error that is not rate limiting
PassFailedNotRateLimited ==
    \/ err.type = "TranscriptScrapeError" /\ ~is_rate_limited_message(err.msg)
    \/ err.type = "ConnectionError"

\* C9: when the pass of a unit fails with an error that is not rate limiting,
\* the unit ends without retry, SKIPPED for a scrape error and FAILED for any
\* other exception, no file is written for it, and the run goes on with the
\* next unit in order.
C9_NonRateLimitErrorEndsUnit ==
    /\ [](PassFailedNotRateLimited =>
            /\ pc = "pace"
            /\ outcome[u] = (IF err.type = "TranscriptScrapeError" THEN "SKIPPED" ELSE "FAILED")
            /\ wrote[u] = {})
    /\ [][(err.type = "none" /\
            (\/ err'.type = "ConnectionError"
             \/ err'.type = "TranscriptScrapeError" /\ ~is_rate_limited_message(err'.msg))) =>
            (attempt' = attempt /\ files' = files /\ pc' = "pace")]_vars
    /\ [][pc = "pace" =>
            \/ pc' = "guard" /\ <<ti', qi'>> = Successor /\ outcome'[Successor] = "PENDING"
            \/ pc' = "returned" /\ ti = Len(tickers) /\ qi = Len(call.quarters)]_vars

C9_Witness ==
    /\ outcome[<<1, 1>>] = "SKIPPED"
    /\ outcome[<<1, 2>>] = "FAILED" /\ wrote[<<1, 2>>] = {}
    /\ outcome[<<2, 1>>] = "DONE"

\* the bodies of the requests of the current pass classified Content, in order
LogBodies ==
    LET got == SelectSeq(reqLog, LAMBDA e : e.got = "body")
    IN  [k \in 1..Len(got) |-> got[k].body]

\* C10: a unit that ends DONE after k retries has started exactly k + 1
\* passes; the text persisted and the speaker blocks persisted both come from
\* the text of the last pass, and saving issues no request.
C10_OneFetchPerPass ==
    /\ []((pc = "pace" /\ outcome[u] = "DONE") =>
            /\ passes = attempt + 1
            /\ fragments = LogBodies
            /\ text = _normalize_whitespace(_html_to_text(Join(fragments, <<NL>>)))
            /\ call.save_txt => files[stem].txt = [exists |-> TRUE, text |-> text]
            /\ call.save_csv =>
                 files[stem].csv =
                     [exists |-> TRUE, rows |-> CsvRows(_parse_speaker_blocks_from_text(text))])
    /\ [][pc = "save" =>
            (unitReqs' = unitReqs /\ requested' = requested /\ passes' = passes)]_vars

C10_Witness ==
    /\ pc = "pace" /\ outcome[u] = "DONE"
    /\ attempt = 2 /\ passes = 3
    /\ call.save_txt /\ call.save_csv
    /\ Len(fragments) = 2

\* the unit y comes before the unit x in ticker-major order
Before(y, x) == y[1] < x[1] \/ (y[1] = x[1] /\ y[2] < x[2])

\* the position x is within the two lists of the call
InCall(x) == x[1] <= Len(tickers) /\ x[2] <= Len(call.quarters)

\* something was done for the unit x in this run
Started(x) == outcome[x] # "PENDING" \/ x \in requested \/ wrote[x] # {}

\* nothing is done for a unit before every unit before it has ended, and the
\* tickers are taken in the order of the list
OneAfterAnother ==
    /\ \A x \in Units :
         Started(x) =>
            /\ InCall(x)
            /\ \A y \in Units : (InCall(y) /\ Before(y, x)) => outcome[y] \in TerminalOutcomes
    /\ (pc \notin {"call", "raised"} /\ call.tickers_file = TickersTwo) =>
            tickers = <<AAPL, MSFT>>
    /\ pc = "returned" =>
            \A x \in Units : InCall(x) => outcome[x] \in TerminalOutcomes

\* the positions of the loops at which the pair (ticker t, quarter k) was processed
ProcessedAt(t, k) ==
    {x \in Units :
        /\ InCall(x)
        /\ tickers[x[1]] = t /\ call.quarters[x[2]] = k
        /\ outcome[x] \in TerminalOutcomes}

\* C16 as stated: the units are processed one after another in ticker-major
\* order, and when the call returns every (ticker, quarter) pair was
\* processed exactly once.
C16_EachPairOnce ==
    /\ OneAfterAnother
    /\ pc = "returned" =>
         \A t \in Range(tickers) : \A k \in Range(call.quarters) :
             Cardinality(ProcessedAt(t, k)) = 1

\* C16, amended: the units are processed one after another in ticker-major
\* order, tickers in the order of the list and the quarters in the configured
\* order; a request or a write is for the current unit only, the loops move
\* from a unit that has ended to its successor only, and when the call
\* returns every entry of the ticker list was processed once for every
\* quarter: a ticker that is listed twice is processed twice.
C16_EachEntryOnceInOrder ==
    /\ []OneAfterAnother
    /\ [][run' = run =>
            /\ requested' \subseteq requested \cup {u}
            /\ \A x \in Units : wrote'[x] # wrote[x] => x = u
            /\ \A s \in Stems : files'[s] # files[s] => s = stem]_vars
    /\ [][(run' = run /\ <<ti', qi'>> # u) =>
            /\ <<ti', qi'>> = Successor
            /\ outcome'[u] \in TerminalOutcomes
            /\ outcome'[Successor] = "PENDING"]_vars

C16_Witness ==
    /\ call = BatchCall /\ pc = "returned"
    /\ requested = Units
    /\ \A x \in Units : outcome[x] = "DONE" /\ wrote[x] = {"txt", "csv"}

\* the request of the step was classified Error: _fetch_fragment raised
ErrorLogged ==
    /\ reqLog # <<>>
    /\ reqLog[Len(reqLog)].got \in {"scrape_error", "other_error"}

\* C17: when the request of an index, the base or a numbered part, is
\* classified Error, the pass ends at once: the error reaches the caller, no
\* later index is requested and no document is returned, also when fragments
\* were collected before.
C17_ErrorAbortsAssembly ==
    /\ [](\A k \in 1..Len(reqLog) :
            reqLog[k].got \in {"scrape_error", "other_error"} =>
                /\ k = Len(reqLog)
                /\ pc \notin {"fetch_part", "assemble", "check", "save"}
                /\ err.type = (IF reqLog[k].got = "scrape_error"
                               THEN "TranscriptScrapeError" ELSE "ConnectionError")
                /\ wrote[u] = {})
    /\ [][(reqLog' # reqLog /\ ErrorLogged') =>
            /\ pc' \in {"pace", "backoff", "raised"}
            /\ html' = html /\ text' = text /\ files' = files
            /\ err'.type \in {"TranscriptScrapeError", "ConnectionError"}
            /\ err'.type = "TranscriptScrapeError" =>
                 (/\ Contains(err'.msg, <<"H","T","T","P">>)
                  /\ Contains(err'.msg, requote_uri(url)))]_vars
    /\ [][ErrorLogged => (reqLog' = reqLog \/ reqLog' = <<>>)]_vars

C17_Witness ==
    /\ Len(reqLog) = 3 /\ pc = "pace"
    /\ reqLog[1].got = "body" /\ reqLog[2].got = "body" /\ reqLog[3].got = "scrape_error"
    /\ Len(fragments) = 2
    /\ outcome[u] = "SKIPPED" /\ html = <<>>

\* the indices of the fragments collected in the current pass
Collected == {reqLog[n].index : n \in {m \in 1..Len(reqLog) : reqLog[m].got = "body"}}

\* C18 as stated: the numbered indices collected in a pass are exactly 1..k
\* for some k >= 0, whether or not the base fragment (index 0) is collected.
C18_NumberedFromOne ==
    \E k \in 0..call.max_parts : Collected \ {0} = 1..k

\* C18, amended: the indices collected in a pass are consecutive, no index
\* twice: they are j..k, where j is the first index whose answer is Content
\* (0 for the base fragment, or a numbered index when the base and the parts
\* before it are absent), and the fragments are kept in that order.
C18_ConsecutiveIndices ==
    /\ \A a \in Collected : \A b \in Collected :
         \A c \in 0..call.max_parts : (a < c /\ c < b) => c \in Collected
    /\ \A m \in 1..Len(reqLog) : \A n \in 1..Len(reqLog) :
         reqLog[m].index = reqLog[n].index => m = n
    /\ \A n \in 1..Len(reqLog) :
         (\A a \in Collected : reqLog[n].index < a) => reqLog[n].got # "body"
    /\ pc \in {"fetch_part", "assemble", "check", "save"} =>
         /\ Len(fragments) = Cardinality(Collected)
         /\ \A n \in 1..Len(reqLog) :
              reqLog[n].got = "body" =>
                  fragments[1 + Cardinality({a \in Collected : a < reqLog[n].index})]
                      = reqLog[n].body

C18_Witness ==
    /\ pc = "check"
    /\ Collected = {2, 3}
    /\ Len(fragments) = 2

\* the transitions of a unit; SKIPPED_DONE is SKIPPED by the entry guard, and
\* ABORTED marks the unit that was FETCHING when the call raised RateLimitReached
UnitTransitions ==
    { <<"PENDING", "SKIPPED_DONE">>, <<"PENDING", "FETCHING">>,
      <<"FETCHING", "DONE">>, <<"FETCHING", "SKIPPED">>, <<"FETCHING", "FAILED">>,
      <<"FETCHING", "RATE_LIMITED_RETRY">>, <<"RATE_LIMITED_RETRY", "FETCHING">>,
      <<"FETCHING", "ABORTED">> }

\* within a run, the state of a unit changes by the transitions of the state
\* machine only, and only the current unit changes state
FollowsTransitions ==
    run' = run =>
        \A x \in Units :
            outcome'[x] # outcome[x] =>
                (x = u /\ <<outcome[x], outcome'[x]>> \in UnitTransitions)

\* the (ticker, quarter) pair of the position x
PairOf(x) == <<tickers[x[1]], call.quarters[x[2]]>>

\* C19 as stated, a unit being a (ticker, quarter) pair: the units follow
\* the transitions of the state machine, and once the pair has ended DONE,
\* SKIPPED or FAILED no request is issued and no file is written for that
\* pair in the same run.
C19_PairEndsOnce ==
    /\ [][FollowsTransitions]_vars
    /\ [][run' = run =>
            \A x \in Units :
                (InCall(x) /\ outcome[x] \in TerminalOutcomes) =>
                    /\ unitReqs' > unitReqs => PairOf(u) # PairOf(x)
                    /\ files'[Stem(PairOf(x)[1], PairOf(x)[2])]
                         = files[Stem(PairOf(x)[1], PairOf(x)[2])]]_vars

\* C19, amended, a unit being a position of the two loops (an entry of the
\* ticker list and a quarter): the units follow the transitions of the
\* state machine, and once a unit has ended DONE, SKIPPED or FAILED its
\* state stays, no request is issued for it and nothing is written for it in
\* the same run.
C19_UnitEndsOnce ==
    /\ [][FollowsTransitions]_vars
    /\ [][run' = run =>
            \A x \in Units :
                outcome[x] \in TerminalOutcomes =>
                    /\ outcome'[x] = outcome[x]
                    /\ wrote'[x] = wrote[x]
                    /\ x \in requested' => x \in requested
                    /\ x = u => (unitReqs' <= unitReqs /\ files' = files)]_vars
    /\ [](\A x \in Units : x \in requested \/ wrote[x] # {} => outcome[x] # "PENDING")

C19_Witness ==
    /\ call = BatchCall /\ pc = "returned"
    /\ outcome[<<1, 1>>] = "DONE" /\ outcome[<<1, 2>>] = "SKIPPED"
    /\ outcome[<<2, 1>>] = "FAILED" /\ outcome[<<2, 2>>] = "DONE"

\* d ticks is sleep_s plus a jitter in [0, jitter_s), sleep_s and jitter_s
\* being those of the call, in hundredths of a second
IsPacingDelay(d) ==
    /\ d >= call.sleep_s * RandomSteps
    /\ IF call.jitter_s > 0
       THEN d < (call.sleep_s + call.jitter_s) * RandomSteps
       ELSE d = call.sleep_s * RandomSteps

\* the step leaves the current unit for the next one
LeavesUnit == run' = run /\ <<ti', qi'>> # u

StemOf(x) == Stem(tickers[x[1]], call.quarters[x[2]])

\* the text of a transcript made of the base fragment alone
BaseTranscript == <<"S", "0", NL, "H", "i", ".">>

\* the files this run wrote for the unit x hold the transcript of x
WrittenIntact(x) ==
    /\ "txt" \in wrote[x] =>
         files[StemOf(x)].txt = [exists |-> TRUE, text |-> BaseTranscript]
    /\ "csv" \in wrote[x] =>
         files[StemOf(x)].csv =
             [exists |-> TRUE,
              rows |-> << [sequence |-> 1, speaker |-> <<"S", "0">>, text |-> <<"H", "i", ".">>] >>]

\* C21: when the call raises RateLimitReached at the unit u the run ends
\* there: nothing was requested or written for a unit after u, no file of u
\* was written, the step that raises and the state it leaves change no file,
\* and the files written for the units before u are as they were written.
C21_AbortLeavesOutputs ==
    /\ []((pc = "raised" /\ exc = "RateLimitReached") =>
            /\ outcome[u] = "ABORTED" /\ wrote[u] = {}
            /\ \A x \in Units :
                 Before(u, x) =>
                     (x \notin requested /\ wrote[x] = {} /\ outcome[x] = "PENDING")
            /\ call = BatchCall =>
                 \A x \in Units : Before(x, u) => WrittenIntact(x))
    /\ [](\A x \in Units : outcome[x] = "ABORTED" => (x = u /\ pc = "raised"))
    /\ [][(pc' = "raised" /\ pc # "raised") => (files' = files /\ wrote' = wrote)]_vars
    /\ [][pc = "raised" => (files' = files /\ requested' = {} /\ pc' = "call")]_vars

C21_Witness ==
    /\ call = BatchCall /\ pc = "raised" /\ exc = "RateLimitReached"
    /\ run = 1 /\ u = <<2, 1>>
    /\ wrote[<<1, 1>>] = {"txt", "csv"} /\ wrote[<<1, 2>>] = {"txt", "csv"}

\* control locations within the retry loop of the current unit
InRetryLoop == pc \in {"fetch_base", "fetch_part", "assemble", "check", "backoff", "save", "pace"}

\* C22: the retry budget is per unit: a unit that enters FETCHING starts
\* with the retry count 0, whatever count the units before it reached; the
\* count changes only by one retry of the current unit at a time, so it
\* counts the passes of that unit alone; and the call raises RateLimitReached
\* only when one unit has used max_rate_limit_retries retries by itself and
\* its next pass is rate limited again.
C22_BudgetPerUnit ==
    /\ [][(pc = "guard" /\ pc' = "fetch_base") => (attempt' = 0 /\ passes' = 0)]_vars
    /\ [][attempt' # attempt =>
            \/ pc = "backoff" /\ attempt' = attempt + 1 /\ <<ti', qi'>> = u /\ run' = run
            \/ pc = "guard" /\ pc' = "fetch_base" /\ attempt' = 0
            \/ run' = run + 1 /\ attempt' = 0]_vars
    /\ [](InRetryLoop =>
            /\ attempt <= call.max_rate_limit_retries
            /\ passes = (IF pc = "fetch_base" THEN attempt ELSE attempt + 1))
    /\ []((pc = "raised" /\ exc = "RateLimitReached") =>
            /\ attempt = call.max_rate_limit_retries
            /\ passes = call.max_rate_limit_retries + 1
            /\ is_rate_limited_message(text))

C22_Witness ==
    /\ call = BatchCall /\ pc = "guard" /\ u = <<2, 2>>
    /\ attempt = MaxRetries
    /\ outcome[<<1, 1>>] = "DONE" /\ outcome[<<1, 2>>] = "DONE" /\ outcome[<<2, 1>>] = "DONE"
    /\ outcome[u] = "PENDING"

\* every request of the pass was classified Content
AllContent == reqLog # <<>> /\ \A k \in 1..Len(reqLog) : reqLog[k].got = "body"

\* the scan of the pass is over
ScanOver == pc # "fetch_part"

\* C24: a pass issues at most max_parts + 1 requests, the base request and
\* the numbered requests 1..max_parts; it issues exactly max_parts + 1 when
\* every answer is Absent, and then fails, and when every answer is Content;
\* a rate-limit page with a 2xx status is Content and does not end the scan.
\* A unit issues at most (max_parts + 1) * (max_rate_limit_retries + 1)
\* requests.
C24_RequestsBounded ==
    /\ Len(reqLog) <= call.max_parts + 1
    /\ unitReqs <= passes * (call.max_parts + 1)
    /\ unitReqs <= (call.max_parts + 1) * (call.max_rate_limit_retries + 1)
    /\ (AllAbsent /\ ScanOver) =>
         /\ Len(reqLog) = call.max_parts + 1
         /\ pc # "assemble" => (err.msg = EmptyResultMessage /\ outcome[u] = "SKIPPED")
    /\ (AllContent /\ ScanOver) => Len(reqLog) = call.max_parts + 1
    /\ \A k \in 1..Len(reqLog) :
         reqLog[k].body = RateLimitBody =>
             /\ reqLog[k].got = "body"
             /\ k <= call.max_parts => (Len(reqLog) > k \/ (pc = "fetch_part" /\ i = k))

C24_Witness ==
    /\ pc = "raised" /\ exc = "RateLimitReached"
    /\ call.max_parts = 1
    /\ unitReqs = 2 * (MaxRetries + 1)
    /\ Len(reqLog) = 2 /\ reqLog[1].body = RateLimitBody /\ reqLog[2].body = RateLimitBody

\* the last request of the pass was answered with a status from 400 on, 404 apart
HttpErrorLast == reqLog # <<>> /\ reqLog[Len(reqLog)].got = "scrape_error"

C27_GuardSkipsIffAllPresent ==
    /\ [][pc = "guard" =>
            /\ (outcome'[u] = "SKIPPED_DONE") <=> ExpectedPresent
            /\ ~ExpectedPresent =>
                 (pc' = "fetch_base" /\ outcome'[u] = "FETCHING" /\ <<ti', qi'>> = u)]_vars
    /\ [][(pc = "save" /\ outcome'[u] = "DONE") =>
            /\ call.save_txt =>
                 ("txt" \in wrote'[u] /\ files'[stem].txt = [exists |-> TRUE, text |-> text])
            /\ call.save_csv =>
                 /\ "csv" \in wrote'[u]
                 /\ files'[stem].csv =
                      [exists |-> TRUE, rows |-> CsvRows(speaker_blocks_from_text(text))]]_vars
    /\ []((~call.save_txt /\ ~call.save_csv) =>
            /\ \A x \in Units : outcome[x] # "SKIPPED_DONE"
            /\ pc = "returned" => \A x \in Units : InCall(x) => x \in requested)

C27_Witness ==
    /\ run = 2 /\ pc = "save"
    /\ call.save_txt /\ call.save_csv
    /\ files[stem].txt.exists /\ files[stem].txt.text # <<>>
    /\ ~files[stem].csv.exists
    /\ text # files[stem].txt.text

(***************************************************************************)
(* Properties of the functions applied on their own.                       *)
(***************************************************************************)
\* min(600, 15 * 2^a) in seconds, case by case
CappedDelay(a) ==
    CASE a = 0 -> 15 [] a = 1 -> 30 [] a = 2 -> 60 [] a = 3 -> 120
      [] a = 4 -> 240 [] a = 5 -> 480 [] OTHER -> 600

\* the bounds 0.7 * d and 1.3 * d, in ticks, of d seconds
Low(d) == (7 * d * TicksPerSecond) \div 10
High(d) == (13 * d * TicksPerSecond) \div 10

Applied(fn) == arg.fn = fn /\ result # NoRes

\* C11: with base 15 and cap 600 the delay of attempt a lies in
\* [0.7 * d, 1.3 * d] for d = min(600, 15 * 2^a): in [10.5, 19.5] at attempt
\* 0, around 480 at attempt 5 and around 600 at every attempt from 6 on; d
\* does not decrease with the attempt and never exceeds the cap.
C11_BackoffDelayBounds ==
    Applied("_backoff_delay_s") =>
        LET d == CappedDelay(arg.attempt)
        IN  /\ Low(d) <= result.delay /\ result.delay <= High(d)
            /\ arg.attempt = 0 =>
                 (/\ 2 * result.delay >= 21 * TicksPerSecond
                  /\ 2 * result.delay <= 39 * TicksPerSecond)
            /\ arg.attempt = 5 => d = 480
            /\ arg.attempt >= 6 => d = 600
            /\ d <= BackoffCap
            /\ arg.attempt > 0 => CappedDelay(arg.attempt - 1) <= d
            /\ arg.random = 0 => result.delay = Low(d)

C11_Witness ==
    /\ Applied("_backoff_delay_s")
    /\ arg.attempt = 7 /\ arg.random = RandomSteps - 1
    /\ result.delay > 600 * TicksPerSecond

\* the three rate-limit phrases, in lower case
LimitPhrases ==
    { <<"r","e","q","u","e","s","t"," ","l","i","m","i","t"," ","r","e","a","c","h","e","d">>,
      <<"f","o","r","b","i","d","d","e","n"," ","-"," ","r","e","q","u","e","s","t"," ","l","i","m","i","t"," ","r","e","a","c","h","e","d">>,
      <<"y","o","u"," ","s","e","e","m"," ","t","o"," ","h","a","v","e"," ","r","e","a","c","h","e","d"," ","y","o","u","r"," ","r","e","q","u","e","s","t"," ","l","i","m","i","t">> }

\* the characters a and b are the same letter or the same character
SameIgnoringCase(a, b) ==
    \/ a = b
    \/ \E n \in 1..26 : {a, b} = {UpperLetters[n], LowerLetters[n]}

\* the phrase occurs in the text at some position, letter case set aside
Occurs(phrase, t) ==
    \E k \in 0..(Len(t) - Len(phrase)) :
        \A j \in 1..Len(phrase) : SameIgnoringCase(t[k + j], phrase[j])

\* C12: is_rate_limited_message(text) is true exactly when the text contains,
\* letter case set aside, one of the three rate-limit phrases at some
\* position; so it is true for 'Request Limit Reached' in any case within any
\* text, and false for 'normal transcript content' and for the empty text.
C12_RateLimitedIffPhrase ==
    Applied("is_rate_limited_message") =>
        /\ result.value = (\E ph \in LimitPhrases : Occurs(ph, arg.text))
        /\ Occurs(<<"r","e","q","u","e","s","t"," ","l","i","m","i","t"," ","r","e","a","c","h","e","d">>, arg.text) => result.value = TRUE
        /\ arg.text \in {<<>>, <<"n","o","r","m","a","l"," ","t","r","a","n","s","c","r","i","p","t"," ","c","o","n","t","e","n","t">>} => result.value = FALSE

C12_Witness ==
    /\ Applied("is_rate_limited_message")
    /\ arg.text = <<"E","r","r","o","r",":",NL,"R","E","Q","U","E","S","T"," ","L","I","M","I","T"," ","R","E","A","C","H","E","D",".">>
    /\ result.value = TRUE

\* the lines of the pool that are speaker labels, and those that are content
LabelLines == {Operator, TimCook}
ContentLines == {Welcome, Thanks, FiscalYear, SixWords}

\* the positions of the labels that are followed by content before the next label
SpokenAt(ls) ==
    {k \in 1..Len(ls) :
        /\ ls[k] \in LabelLines
        /\ \E j \in (k + 1)..Len(ls) :
             /\ ls[j] \in ContentLines
             /\ \A m \in (k + 1)..(j - 1) : ls[m] \notin LabelLines}

\* the elements of a set of numbers, in increasing order
RECURSIVE Ascending(_)
Ascending(S) ==
    IF S = {} THEN <<>>
    ELSE LET least == CHOOSE x \in S : \A y \in S : x <= y
         IN  <<least>> \o Ascending(S \ {least})

\* C13: the blocks of a text are numbered 1, 2, ..., n in the order their
\* speaker labels appear in the text, in the rows of the .csv as in the list
\* of blocks; the lines Operator, Welcome., Tim Cook, Thanks everyone. give
\* (1, Operator, Welcome.) and (2, Tim Cook, Thanks everyone.).
C13_BlocksNumberedInOrder ==
    Applied("speaker_blocks_from_text") =>
        LET at == Ascending(SpokenAt(arg.lines))
        IN  /\ Len(result.rows) = Len(result.blocks)
            /\ \A k \in 1..Len(result.rows) :
                 /\ result.rows[k].sequence = k
                 /\ result.rows[k].speaker = result.blocks[k].speaker
                 /\ result.rows[k].text = result.blocks[k].text
            /\ at # <<>> =>
                 /\ Len(result.rows) = Len(at)
                 /\ \A k \in 1..Len(at) : result.rows[k].speaker = Strip(arg.lines[at[k]])
            /\ arg.lines = <<Operator, Welcome, TimCook, Thanks>> =>
                 result.rows = << [sequence |-> 1, speaker |-> Operator, text |-> Welcome],
                                  [sequence |-> 2, speaker |-> Strip(TimCook), text |-> Thanks] >>

C13_Witness ==
    /\ Applied("speaker_blocks_from_text")
    /\ arg.lines = <<Operator, Welcome, TimCook, Thanks>>
    /\ Len(result.rows) = 2

\* C14: a text none of whose lines is a speaker label gives exactly one
\* block, of speaker 'Unknown', whose text is the whole text.
C14_UnknownFallback ==
    (Applied("speaker_blocks_from_text") /\ \A k \in 1..Len(arg.lines) : arg.lines[k] \notin LabelLines) =>
        result.blocks = << [speaker |-> <<"U","n","k","n","o","w","n">>, text |-> arg.text] >>

C14_Witness ==
    /\ Applied("speaker_blocks_from_text")
    /\ arg.lines = <<Welcome, <<>>, FiscalYear, SixWords>>
    /\ Len(result.blocks) = 1 /\ result.blocks[1].text = arg.text

\* the body holds the two marks of the not-found template
IsNotFoundTemplate(body) ==
    /\ Contains(body, <<"P","a","g","e"," ","N","o","t"," ","F","o","u","n","d">>)
    /\ Contains(body, <<"4","0","4">>)

IsBlank(body) == \A k \in 1..Len(body) : body[k] \in Whitespace

Is2xx(status) == 200 <= status /\ status <= 299

\* C15 as stated: one request; Content, which returns the body, exactly for
\* a 2xx status with a non-empty body that is not the not-found template;
\* Absent exactly for 404, or 2xx with an empty body or the template; Error,
\* with the status and the URL, for every other 4xx or 5xx status.
C15_ClassifiedBy2xx ==
    Applied("_fetch_fragment") =>
        /\ Len(result.requests) = 1
        /\ result.got.kind \in {"body", "none", "scrape_error"}
        /\ result.got.kind = "body" <=>
             (Is2xx(arg.status) /\ arg.body # <<>> /\ ~IsNotFoundTemplate(arg.body))
        /\ result.got.kind = "body" => result.got.body = arg.body
        /\ result.got.kind = "none" <=>
             \/ arg.status = 404
             \/ Is2xx(arg.status) /\ (arg.body = <<>> \/ IsNotFoundTemplate(arg.body))
        /\ result.got.kind = "scrape_error" <=> (arg.status >= 400 /\ arg.status # 404)

\* C15, amended: one request; Content, which returns the body stripped of
\* the whitespace around it, exactly for a status below 400 with a body that
\* is not blank and is not the not-found template; Absent exactly for 404,
\* or a status below 400 with a blank body or the template; Error, a
\* TranscriptScrapeError with the status and the resolved URL, for every
\* other status from 400 on.
C15_ClassifiedByStatusBelow400 ==
    Applied("_fetch_fragment") =>
        /\ Len(result.requests) = 1
        /\ result.got.kind \in {"body", "none", "scrape_error"}
        /\ result.got.kind = "body" <=>
             (arg.status < 400 /\ ~IsBlank(arg.body) /\ ~IsNotFoundTemplate(arg.body))
        /\ result.got.kind = "body" =>
             /\ Contains(arg.body, result.got.body)
             /\ result.got.body # <<>>
             /\ result.got.body[1] \notin Whitespace
             /\ result.got.body[Len(result.got.body)] \notin Whitespace
             /\ Len(arg.body) > Len(result.got.body) =>
                  (arg.body[1] \in Whitespace \/ arg.body[Len(arg.body)] \in Whitespace)
        /\ result.got.kind = "none" <=>
             \/ arg.status = 404
             \/ arg.status < 400 /\ (IsBlank(arg.body) \/ IsNotFoundTemplate(arg.body))
        /\ result.got.kind = "scrape_error" <=> (arg.status >= 400 /\ arg.status # 404)
        /\ result.got.kind = "scrape_error" =>
             /\ Contains(result.got.msg, IntStr(arg.status))
             /\ Contains(result.got.msg, result.url)

C15_Witness ==
    /\ Applied("_fetch_fragment")
    /\ arg.status = 304 /\ arg.body = <<SP, NL>> \o NormalBody(1) \o <<NL>>
    /\ result.got.kind = "body" /\ result.got.body = NormalBody(1)

\* the position of the first label after position p, or the end of the lines
NextLabelAfter(ls, p) ==
    LET later == {j \in (p + 1)..Len(ls) : ls[j] \in LabelLines}
    IN  IF later = {} THEN Len(ls) + 1
        ELSE CHOOSE j \in later : \A m \in later : j <= m

\* the content lines between the label at position p and the next label, in order
SaidAfter(ls, p) ==
    SelectSeq(SubSeq(ls, p + 1, NextLabelAfter(ls, p) - 1), LAMBDA l : l \in ContentLines)

\* the words of a sequence of lines, one after another with one space between
RECURSIVE SpacedOut(_)
SpacedOut(ls) ==
    IF ls = <<>> THEN <<>>
    ELSE IF Len(ls) = 1 THEN ls[1]
    ELSE ls[1] \o <<" ">> \o SpacedOut(Tail(ls))

\* C23: the scan closes the accumulated block at every label line and
\* begins a new one under that label: each block carries the label that
\* opened it, and its text is the lines that follow that label up to the
\* next label, in order, joined by single spaces; the blocks are in the
\* order of their labels.
C23_BlocksHoldFollowingLines ==
    /\ Applied("speaker_blocks_from_text") =>
         \A k \in 1..Len(arg.lines) :
             arg.lines[k] \in LabelLines <=>
                 (arg.lines[k] # <<>> /\ looks_like_speaker(Strip(arg.lines[k])))
    /\ (Applied("speaker_blocks_from_text") /\ SpokenAt(arg.lines) # {}) =>
         LET at == Ascending(SpokenAt(arg.lines))
         IN  /\ Len(result.blocks) = Len(at)
             /\ \A k \in 1..Len(at) :
                  /\ result.blocks[k].speaker = Strip(arg.lines[at[k]])
                  /\ result.blocks[k].text = SpacedOut(SaidAfter(arg.lines, at[k]))
                  /\ \A c \in 1..Len(result.blocks[k].text) : result.blocks[k].text[c] # NL

C23_Witness ==
    /\ Applied("speaker_blocks_from_text")
    /\ arg.lines = <<TimCook, Welcome, <<>>, Thanks>>
    /\ result.blocks =
         << [speaker |-> <<"T","i","m"," ","C","o","o","k">>,
             text |-> <<"W","e","l","c","o","m","e","."," ","T","h","a","n","k","s"," ","e","v","e","r","y","o","n","e",".">>] >>

\* the content lines after the first label, in order
SaidAfterFirstLabel(ls) ==
    SelectSeq(SubSeq(ls, NextLabelAfter(ls, 0) + 1, Len(ls)), LAMBDA l : l \in ContentLines)

\* C28: a label that is followed directly by another label, or by the end
\* of the text, gives no block, and the lines before the first label are in
\* no block: there are as many blocks as labels with at least one line of
\* content before the next label, under those labels in order, and together
\* they hold the content lines after the first label and no other; when no
\* label has content, labels or not, the result is the single block
\* 'Unknown' with the full text.  The result is never the empty list.
C28_BlocksOfSpokenLabels ==
    Applied("speaker_blocks_from_text") =>
        LET at == Ascending(SpokenAt(arg.lines))
        IN  /\ result.blocks # <<>>
            /\ Len(result.blocks) = (IF at = <<>> THEN 1 ELSE Len(at))
            /\ at = <<>> =>
                 result.blocks = << [speaker |-> UnknownSpeaker, text |-> arg.text] >>
            /\ at # <<>> =>
                 /\ \A k \in 1..Len(at) : result.blocks[k].speaker = Strip(arg.lines[at[k]])
                 /\ SpacedOut([k \in 1..Len(result.blocks) |-> result.blocks[k].text])
                      = SpacedOut(SaidAfterFirstLabel(arg.lines))

C28_Witness ==
    /\ Applied("speaker_blocks_from_text")
    /\ arg.lines = <<Welcome, Operator, TimCook, Thanks>>
    /\ result.blocks =
         << [speaker |-> <<"T","i","m"," ","C","o","o","k">>,
             text |-> <<"T","h","a","n","k","s"," ","e","v","e","r","y","o","n","e",".">>] >>

(***************************************************************************)
(* A property of the files the controller writes.                          *)
(***************************************************************************)
\* the text holds one of the rate-limit phrases, letter case set aside
HoldsLimitPhrase(t) == \E ph \in LimitPhrases : Occurs(ph, t)

\* C26: no rate-limit page is persisted as a transcript: the text of every
\* .txt file of output_dir is one the rate-limit predicate rejects, and a
\* file changes only when the current unit saves a text the predicate
\* rejects: the .txt becomes that text and the .csv the rows of its speaker
\* blocks.  So no file that makes a unit count as already processed holds a
\* rate-limit page.
C26_NoInterstitialPersisted ==
    /\ [](\A s \in Stems : files[s].txt.exists => ~HoldsLimitPhrase(files[s].txt.text))
    /\ [][files' # files =>
            /\ pc = "save" /\ ~is_rate_limited_message(text)
            /\ \A s \in Stems : s # stem => files'[s] = files[s]
            /\ files'[stem].txt # files[stem].txt =>
                 files'[stem].txt = [exists |-> TRUE, text |-> text]
            /\ files'[stem].csv # files[stem].csv =>
                 files'[stem].csv =
                     [exists |-> TRUE, rows |-> CsvRows(speaker_blocks_from_text(text))]]_vars
    /\ [][(pc = "check" /\ pc' = "save") => ~is_rate_limited_message(text)]_vars

C26_Witness ==
    /\ call = BatchCall /\ pc = "pace" /\ u = <<1, 2>>
    /\ attempt = 1 /\ passes = 2
    /\ outcome[u] = "DONE" /\ wrote[u] = {"txt", "csv"}
    /\ files[stem].txt.exists /\ ~HoldsLimitPhrase(files[stem].txt.text)

=============================================================================
